---- MODULE Spec2Model ----
(***************************************************************************)
(* Model of code_review_swarm.py: CodeReviewSwarm.review_code (concurrent  *)
(* dispatch of the reviewer roster through asyncio.gather) and             *)
(* CodeReviewSwarm._aggregate_reviews (normalisation, severity bucketing   *)
(* and the final dedup pass).                                              *)
(*                                                                         *)
(* Texts are sequences of one-character strings, so that str.lower,        *)
(* str.find, slicing, str.split and str.strip are computed as Python       *)
(* computes them.  Python values are tagged records of one shape, so that  *)
(* isinstance tests and the AttributeError / TypeError they guard against  *)
(* are decided by the tag.                                                 *)
(***************************************************************************)
EXTENDS Integers, Sequences, FiniteSets, TLC

\* Longest result sequence handed to _aggregate_reviews when it is called directly.
MaxResults == 3

\* The roster: code_review_agents holds five reviewers.
NumAgents == 5

Agents == 1..NumAgents

(***************************************************************************)
(* Text                                                                    *)
(***************************************************************************)
UpperChars ==
  <<"A","B","C","D","E","F","G","H","I","J","K","L","M",
    "N","O","P","Q","R","S","T","U","V","W","X","Y","Z">>

LowerChars ==
  <<"a","b","c","d","e","f","g","h","i","j","k","l","m",
    "n","o","p","q","r","s","t","u","v","w","x","y","z">>

\* the lower-case letter of each upper-case letter
LowerOf ==
  [c \in {UpperChars[i] : i \in 1..Len(UpperChars)} |->
     LowerChars[CHOOSE i \in 1..Len(UpperChars) : UpperChars[i] = c]]

\* str.lower on one character
LowerChar(c) == IF c \in DOMAIN LowerOf THEN LowerOf[c] ELSE c

\* str.lower
Lower(t) == [i \in 1..Len(t) |-> LowerChar(t[i])]

\* whether sub occurs in t at 0-based offset k
OccursAt(t, sub, k) ==
  /\ k >= 0
  /\ k + Len(sub) <= Len(t)
  /\ \A j \in 1..Len(sub) : t[k + j] = sub[j]

\* sub in t
Contains(t, sub) == \E k \in 0..Len(t) : OccursAt(t, sub, k)

\* str.find: the lowest 0-based offset of sub in t, or -1
Find(t, sub) ==
  LET offsets == {k \in 0..Len(t) : OccursAt(t, sub, k)}
  IN IF offsets = {} THEN -1 ELSE CHOOSE k \in offsets : \A m \in offsets : k <= m

\* t[a:b] for 0 <= a and 0 <= b <= len(t)
Slice(t, a, b) == SubSeq(t, a + 1, b)

Whitespace == {" ", "\n", "\t", "\r"}

RECURSIVE LStrip(_)
LStrip(t) ==
  IF t # <<>> /\ Head(t) \in Whitespace THEN LStrip(Tail(t)) ELSE t

RECURSIVE RStrip(_)
RStrip(t) ==
  IF t # <<>> /\ t[Len(t)] \in Whitespace
    THEN RStrip(SubSeq(t, 1, Len(t) - 1))
    ELSE t

\* str.strip
Strip(t) == RStrip(LStrip(t))

\* str.split("\n")
RECURSIVE SplitLines(_)
SplitLines(t) ==
  LET breaks == {k \in 1..Len(t) : t[k] = "\n"}
  IN IF breaks = {} THEN <<t>>
     ELSE LET i == CHOOSE k \in breaks : \A m \in breaks : k <= m
          IN <<SubSeq(t, 1, i - 1)>> \o SplitLines(SubSeq(t, i + 1, Len(t)))

\* [s.strip() for s in text.split("\n") if s.strip()]
RECURSIVE StripNonBlank(_)
StripNonBlank(ls) ==
  IF ls = <<>> THEN <<>>
  ELSE IF Strip(Head(ls)) = <<>> THEN StripNonBlank(Tail(ls))
  ELSE <<Strip(Head(ls))>> \o StripNonBlank(Tail(ls))

NonBlankLines(t) == StripNonBlank(SplitLines(t))

T_issues == <<"i","s","s","u","e","s">>
T_suggestions == <<"s","u","g","g","e","s","t","i","o","n","s">>
T_high == <<"h","i","g","h">>
T_medium == <<"m","e","d","i","u","m">>
T_low == <<"l","o","w">>

(***************************************************************************)
(* Python values                                                           *)
(*                                                                         *)
(* A field value is [kind, val]: kind "absent" (the key is not in the      *)
(* mapping), "str", "int", "null" (None) or "list"; val is its text.       *)
(***************************************************************************)
Absent == [kind |-> "absent", val |-> <<>>]
StrVal(t) == [kind |-> "str", val |-> t]
IntVal(t) == [kind |-> "int", val |-> t]
NullVal == [kind |-> "null", val |-> <<>>]
ListVal(t) == [kind |-> "list", val |-> t]

\* A mapping-shaped entry of an issues list, by its fields.
Issue(d, s, l) == [isdict |-> TRUE, description |-> d, severity |-> s, line |-> l]

\* An entry of an issues list that is not a mapping (here: a bare text).
BareEntry(t) == [isdict |-> FALSE, description |-> StrVal(t), severity |-> Absent, line |-> Absent]

\* The value under "issues" or "suggestions": kind "absent", "list", "null" or "str".
NoField == [kind |-> "absent", items |-> <<>>]
ListField(xs) == [kind |-> "list", items |-> xs]
NullField == [kind |-> "null", items |-> <<>>]
StrField == [kind |-> "str", items |-> <<>>]

\* The value under "review": kind "absent", "dict", "str" or "null".
NoReview == [kind |-> "absent", issues |-> NoField, suggestions |-> NoField]
ReviewDict(i, s) == [kind |-> "dict", issues |-> i, suggestions |-> s]
ReviewStr == [kind |-> "str", issues |-> NoField, suggestions |-> NoField]
ReviewNull == [kind |-> "null", issues |-> NoField, suggestions |-> NoField]

\* A raw reviewer result: a mapping ("dict"), a text ("text") or None ("none").
Dict(rv, i, s) ==
  [kind |-> "dict", review |-> rv, issues |-> i, suggestions |-> s, text |-> <<>>]

TextResult(t) ==
  [kind |-> "text", review |-> NoReview, issues |-> NoField, suggestions |-> NoField, text |-> t]

NoneResult ==
  [kind |-> "none", review |-> NoReview, issues |-> NoField, suggestions |-> NoField, text |-> <<>>]

\* if s: truthiness of one element of a suggestions list
Truthy(v) ==
  CASE v.kind = "str" -> v.val # <<>>
    [] v.kind = "int" -> v.val # <<"0">>
    [] OTHER -> FALSE

\* str(s) for a str or an int
PyStr(v) == v.val

(***************************************************************************)
(* json.loads, on the texts the model draws: an empty object, a string     *)
(* literal without escapes, and texts that are no JSON at all.             *)
(***************************************************************************)
JsonLoads(t) ==
  LET s == Strip(t)
  IN IF s = <<"{", "}">>
       THEN [ok |-> TRUE, value |-> Dict(NoReview, NoField, NoField)]
     ELSE IF /\ Len(s) >= 2
             /\ s[1] = "\""
             /\ s[Len(s)] = "\""
             /\ \A i \in 2..(Len(s) - 1) : s[i] \notin {"\"", "\\", "\n", "\t", "\r"}
       THEN [ok |-> TRUE, value |-> TextResult(SubSeq(s, 2, Len(s) - 1))]
     ELSE [ok |-> FALSE, value |-> NoneResult]

\* lines 173-174: one issue of severity medium per line
RECURSIVE MediumIssues(_)
MediumIssues(ls) ==
  IF ls = <<>> THEN <<>>
  ELSE <<Issue(StrVal(Head(ls)), StrVal(T_medium), Absent)>> \o MediumIssues(Tail(ls))

\* line 175
RECURSIVE StrValues(_)
StrValues(ls) ==
  IF ls = <<>> THEN <<>> ELSE <<StrVal(Head(ls))>> \o StrValues(Tail(ls))

\* lines 163-176
ExtractFromText(t) ==
  LET lower == Lower(t)
      issues_start == Find(lower, T_issues)
      found == Find(lower, T_suggestions)
      suggestions_start == IF found = -1 THEN Len(t) ELSE found
      issues_text == Slice(t, issues_start, suggestions_start)
      suggestions_text ==
        IF suggestions_start < Len(t) THEN Slice(t, suggestions_start, Len(t)) ELSE <<>>
  IN Dict(NoReview,
          ListField(MediumIssues(NonBlankLines(issues_text))),
          ListField(StrValues(NonBlankLines(suggestions_text))))

\* lines 156-176: what result is after the isinstance(result, str) block
Normalize(result) ==
  IF result.kind # "text" THEN result
  ELSE LET parsed == JsonLoads(result.text)
       IN IF parsed.ok THEN parsed.value
          ELSE IF Contains(Lower(result.text), T_issues) THEN ExtractFromText(result.text)
          ELSE result

(***************************************************************************)
(* _aggregate_reviews: one result                                          *)
(***************************************************************************)
Buckets == {"high_priority", "medium_priority", "low_priority"}

\* lines 146-151
EmptyAggregated ==
  [high_priority |-> <<>>, medium_priority |-> <<>>, low_priority |-> <<>>,
   suggestions |-> <<>>]

\* result.get("review", result) is something without .get: AttributeError
ReviewDataRaises(r) == r.review.kind \notin {"absent", "dict"}

\* line 180: review_data = result.get("review", result)
ReviewData(r) ==
  IF r.review.kind = "dict"
    THEN [issues |-> r.review.issues, suggestions |-> r.review.suggestions]
    ELSE [issues |-> r.issues, suggestions |-> r.suggestions]

\* iterating None: TypeError
IterRaises(field) == field.kind = "null"

IssuesOrSelf(rd) ==
  IF rd.issues.kind = "list" THEN rd.issues.items
  ELSE IF rd.issues.kind = "absent" THEN <<Issue(Absent, Absent, Absent)>>
  ELSE <<>>

\* line 183: the entries the loop visits; a text yields its characters, none a mapping
IssuesOf(rd) == IF rd.issues.kind = "list" THEN rd.issues.items ELSE <<>>

\* issue.get("severity", "low") has no .lower(): AttributeError
SeverityRaises(issue) == issue.severity.kind \notin {"absent", "str"}

SeverityAsWritten(issue) ==
  IF issue.severity.kind = "absent" THEN T_low ELSE issue.severity.val

\* line 185: issue.get("severity", "low").lower()
SeverityOf(issue) ==
  Lower(IF issue.severity.kind = "absent" THEN T_low ELSE issue.severity.val)

\* lines 186-191
Classify(severity) ==
  IF severity = T_high THEN "high_priority"
  ELSE IF severity = T_medium THEN "medium_priority"
  ELSE "low_priority"

\* lines 183-191: the issues loop, up to the entry that raises
RECURSIVE ProcessIssues(_, _)
ProcessIssues(acc, items) ==
  IF items = <<>> THEN [acc |-> acc, raised |-> FALSE]
  ELSE IF ~Head(items).isdict THEN ProcessIssues(acc, Tail(items))
  ELSE IF SeverityRaises(Head(items)) THEN [acc |-> acc, raised |-> TRUE]
  ELSE ProcessIssues(
         [acc EXCEPT ![Classify(SeverityOf(Head(items)))] = Append(@, Head(items))],
         Tail(items))

\* [str(s) for s in suggestions if s]
RECURSIVE TruthyTexts(_)
TruthyTexts(xs) ==
  IF xs = <<>> THEN <<>>
  ELSE IF Truthy(Head(xs)) THEN <<PyStr(Head(xs))>> \o TruthyTexts(Tail(xs))
  ELSE TruthyTexts(Tail(xs))

\* lines 194-196
CollectSuggestions(acc, field) ==
  IF field.kind = "list"
    THEN [acc EXCEPT !.suggestions = @ \o TruthyTexts(field.items)]
    ELSE acc

\* lines 154-196: the body of the try, with whether it raised
ProcessResult(acc, result) ==
  LET r == Normalize(result)
  IN IF r.kind # "dict" THEN [acc |-> acc, raised |-> FALSE]
     ELSE IF ReviewDataRaises(r) THEN [acc |-> acc, raised |-> TRUE]
     ELSE IF IterRaises(ReviewData(r).issues) THEN [acc |-> acc, raised |-> TRUE]
     ELSE LET pi == ProcessIssues(acc, IssuesOf(ReviewData(r)))
          IN IF pi.raised THEN pi
             ELSE [acc |-> CollectSuggestions(pi.acc, ReviewData(r).suggestions),
                   raised |-> FALSE]

\* lines 153-200: try ... except Exception: continue
HandleResult(acc, result) == ProcessResult(acc, result).acc

(***************************************************************************)
(* _aggregate_reviews: the final dedup pass                                *)
(***************************************************************************)
\* field names in sorted order
FieldOrder == <<"description", "line", "severity">>

\* tuple(sorted(x.items()))
SortedItems(x) ==
  LET present == SelectSeq(FieldOrder, LAMBDA k : x[k].kind # "absent")
  IN [i \in 1..Len(present) |-> <<present[i], x[present[i]]>>]

\* hashing the tuple hashes every value; a list has no hash: TypeError
Hashable(x) == \A i \in 1..Len(FieldOrder) : x[FieldOrder[i]].kind # "list"

RECURSIVE DedupFrom(_, _)
DedupFrom(xs, seen) ==
  IF xs = <<>> THEN <<>>
  ELSE IF SortedItems(Head(xs)) \in seen THEN DedupFrom(Tail(xs), seen)
  ELSE <<Head(xs)>> \o DedupFrom(Tail(xs), seen \cup {SortedItems(Head(xs))})

RECURSIVE ByDescriptionFrom(_, _)
ByDescriptionFrom(xs, seen) ==
  IF xs = <<>> THEN <<>>
  ELSE IF Head(xs).description \in seen THEN ByDescriptionFrom(Tail(xs), seen)
  ELSE <<Head(xs)>> \o ByDescriptionFrom(Tail(xs), seen \cup {Head(xs).description})

DedupByDescription(bucket) == ByDescriptionFrom(bucket, {})

\* lines 207-211
DedupIssues(bucket) == DedupFrom(bucket, {})

RECURSIVE FromKeys(_, _)
FromKeys(xs, seen) ==
  IF xs = <<>> THEN <<>>
  ELSE IF Head(xs) \in seen THEN FromKeys(Tail(xs), seen)
  ELSE <<Head(xs)>> \o FromKeys(Tail(xs), seen \cup {Head(xs)})

KeepAllSuggestions(suggestions) == suggestions

\* line 205: list(dict.fromkeys(suggestions))
DedupSuggestions(suggestions) == FromKeys(suggestions, {})

DedupRaises(acc) ==
  \E b \in Buckets : \E i \in 1..Len(acc[b]) : ~Hashable(acc[b][i])

\* lines 203-211
DedupPass(acc) ==
  [high_priority |-> DedupIssues(acc.high_priority),
   medium_priority |-> DedupIssues(acc.medium_priority),
   low_priority |-> DedupIssues(acc.low_priority),
   suggestions |-> DedupSuggestions(acc.suggestions)]

RECURSIVE FoldResults(_, _)
FoldResults(acc, rs) ==
  IF rs = <<>> THEN acc ELSE FoldResults(HandleResult(acc, Head(rs)), Tail(rs))

\* lines 136-213: _aggregate_reviews as a function of its argument
AggregateReviews(rs) ==
  LET acc == FoldResults(EmptyAggregated, rs)
  IN [raised |-> DedupRaises(acc),
      report |-> IF DedupRaises(acc) THEN EmptyAggregated ELSE DedupPass(acc)]

(***************************************************************************)
(* The raw results the model draws                                         *)
(***************************************************************************)
T_A == <<"A">>
T_B == <<"B">>
T_C == <<"C">>
T_D == <<"D">>
T_x == <<"x">>
T_y == <<"y">>
T_z == <<"z">>

\* {"invalid": "data"}
R_Invalid == Dict(NoReview, NoField, NoField)

\* SAMPLE_REVIEW_RESPONSE of the tests: the payload under "review"
R_Sample ==
  Dict(ReviewDict(ListField(<<Issue(StrVal(T_x), StrVal(T_medium), IntVal(<<"1">>)),
                              Issue(StrVal(T_y), StrVal(T_high), IntVal(<<"3">>))>>),
                  ListField(<<StrVal(T_A), StrVal(T_B)>>)),
       NoField, NoField)

\* severities HIGH, critical and none at all
R_Upper ==
  Dict(NoReview,
       ListField(<<Issue(StrVal(T_x), StrVal(<<"H","I","G","H">>), Absent),
                   Issue(StrVal(T_y), StrVal(<<"c","r","i","t","i","c","a","l">>), Absent),
                   Issue(StrVal(T_z), Absent, Absent)>>),
       ListField(<<StrVal(T_A), StrVal(T_C)>>))

\* severities High and MEDIUM; suggestions with an empty text, None, 0 and 5
R_Mixed ==
  Dict(NoReview,
       ListField(<<Issue(StrVal(T_y), StrVal(<<"H","i","g","h">>), IntVal(<<"3">>)),
                   Issue(StrVal(T_x), StrVal(T_medium), Absent),
                   Issue(StrVal(T_x), StrVal(<<"M","E","D","I","U","M">>), Absent)>>),
       ListField(<<StrVal(T_B), StrVal(<<>>), NullVal, IntVal(<<"0">>), StrVal(T_A),
                   IntVal(<<"5">>), StrVal(<<"5">>)>>))

\* the second issue's severity is the number 5
R_BadSeverity ==
  Dict(NoReview,
       ListField(<<Issue(StrVal(T_x), StrVal(T_medium), Absent),
                   Issue(StrVal(T_y), IntVal(<<"5">>), Absent),
                   Issue(StrVal(T_z), StrVal(T_high), Absent)>>),
       ListField(<<StrVal(T_D)>>))

\* "line": [1, 2]
R_Unhashable ==
  Dict(NoReview,
       ListField(<<Issue(StrVal(T_x), StrVal(T_high), ListVal(<<"1", "2">>))>>),
       ListField(<<StrVal(T_A)>>))

\* "review": "looks fine", with issues and suggestions beside it
R_ReviewStr ==
  Dict(ReviewStr,
       ListField(<<Issue(StrVal(T_x), StrVal(T_high), Absent)>>),
       ListField(<<StrVal(T_A)>>))

\* "review": None, with issues and suggestions beside it
R_ReviewNull ==
  Dict(ReviewNull,
       ListField(<<Issue(StrVal(T_z), Absent, Absent)>>),
       ListField(<<StrVal(T_B)>>))

\* "issues": None
R_IssuesNull == Dict(NoReview, NullField, ListField(<<StrVal(T_C)>>))

\* an issues entry that is a text, and "suggestions" a text
R_BareEntries ==
  Dict(NoReview,
       ListField(<<BareEntry(T_x), Issue(StrVal(T_x), StrVal(T_high), Absent)>>),
       StrField)

\* "Issues\nA\nB\nSuggestions\nC"
R_Text ==
  TextResult(<<"I","s","s","u","e","s","\n","A","\n","B","\n",
               "S","u","g","g","e","s","t","i","o","n","s","\n","C">>)

\* the JSON string literal "issues"
R_JsonString == TextResult(<<"\"","i","s","s","u","e","s","\"">>)

\* "LGTM"
R_TextNoMarker == TextResult(<<"L","G","T","M">>)

Catalog ==
  {R_Invalid, R_Sample, R_Upper, R_Mixed, R_BadSeverity, R_Unhashable, R_ReviewStr,
   R_ReviewNull, R_IssuesNull, R_BareEntries, R_Text, R_JsonString, R_TextNoMarker,
   NoneResult}

\* sequences over S of length at most n
SeqsUpTo(S, n) == UNION {[1..k -> S] : k \in 0..n}

(***************************************************************************)
(* _get_agent_review and review_code                                       *)
(***************************************************************************)
\* What agent.achat does for one reviewer: return a response, or raise an Exception.
Outcomes ==
  {[raises |-> FALSE, response |-> R_Sample],
   [raises |-> FALSE, response |-> R_Unhashable],
   [raises |-> TRUE, response |-> NoneResult]}

\* line 104
FailureSentinel == Dict(ReviewDict(ListField(<<>>), ListField(<<>>)), NoField, NoField)

\* lines 89-104: what the coroutine returns
GetAgentReview(outcome) ==
  IF outcome.raises THEN FailureSentinel ELSE outcome.response

EscapesWhenRaised(outcome) == outcome.raises

\* line 102: except Exception lets no Exception of achat out of the coroutine
Escapes(outcome) == FALSE

AnySettled(ts) == \E i \in Agents : ts[i] = "done"

\* line 125: gather resolves when every child is done
AllSettled(ts) == \A i \in Agents : ts[i] = "done"

InCompletionOrder(tres, order) == [k \in 1..Len(order) |-> tres[order[k]]]

\* line 125: gather returns the children's results in the order they were passed
GatherResults(tres, order) == [i \in Agents |-> tres[i]]

WrappedError(e) == "ReviewError"

\* lines 132-134: except Exception as e: ... raise
Reraise(e) == e

VARIABLES
  pc,             \* where review_code / _aggregate_reviews is
  outputs,        \* outputs[i]: what reviewer i's achat does
  tstate,         \* tstate[i]: "new", "pending" or "done"
  tresult,        \* tresult[i]: what task i returned
  completed,      \* the roster positions in the order their tasks settled
  stalled,        \* the reviewers whose achat never settles
  review_results, \* the sequence handed to _aggregate_reviews
  idx,            \* position of the for loop in review_results
  aggregated,     \* the accumulator, as the loop leaves it
  report,         \* what _aggregate_reviews returns
  thrown,         \* the exception raised inside review_code's try
  error,          \* the exception the caller of review_code sees
  api_pc,         \* where the /review endpoint is with the request
  request,        \* the request body: code and file_path
  core,           \* what the endpoint's call of review_code did
  status,         \* the HTTP status of the response, 0 before there is one
  reviews,        \* the committed rows of code_reviews, in insertion order
  insights        \* the committed rows of review_insights, in insertion order

vars ==
  <<pc, outputs, tstate, tresult, completed, stalled, review_results, idx, aggregated,
    report, thrown, error, api_pc, request, core, status, reviews, insights>>

dispatchVars == <<outputs, tstate, tresult, completed, stalled>>

serviceVars == <<api_pc, request, core, status>>

storeVars == <<reviews, insights>>

\* init_db has created the two tables and nothing is stored
StoreEmpty ==
  /\ reviews = <<>>
  /\ insights = <<>>

\* no request is being served
ServiceIdle ==
  /\ api_pc = "idle"
  /\ request = [code |-> <<>>, file_path |-> <<>>]
  /\ core = "none"
  /\ status = 0

\* review_code is called
Init ==
  /\ pc = "start"
  /\ outputs \in [Agents -> Outcomes]
  /\ tstate = [i \in Agents |-> "new"]
  /\ tresult = [i \in Agents |-> NoneResult]
  /\ completed = <<>>
  /\ stalled = {}
  /\ review_results = <<>>
  /\ idx = 1
  /\ aggregated = EmptyAggregated
  /\ report = EmptyAggregated
  /\ thrown = "none"
  /\ error = "none"
  /\ ServiceIdle
  /\ StoreEmpty

\* _aggregate_reviews is called directly
InitAgg ==
  /\ pc = "aggregate"
  /\ outputs = [i \in Agents |-> [raises |-> FALSE, response |-> R_Sample]]
  /\ tstate = [i \in Agents |-> "new"]
  /\ tresult = [i \in Agents |-> NoneResult]
  /\ completed = <<>>
  /\ stalled = {}
  /\ review_results \in SeqsUpTo(Catalog, MaxResults)
  /\ idx = 1
  /\ aggregated = EmptyAggregated
  /\ report = EmptyAggregated
  /\ thrown = "none"
  /\ error = "none"
  /\ ServiceIdle
  /\ StoreEmpty

\* lines 119-125: the tasks are created and gather schedules them
StartGather ==
  /\ pc = "start"
  /\ pc' = "gathering"
  /\ tstate' = [i \in Agents |-> "pending"]
  /\ UNCHANGED <<outputs, tresult, completed, stalled, review_results, idx, aggregated,
                 report, thrown, error>>
  /\ UNCHANGED serviceVars
  /\ UNCHANGED storeVars

\* lines 119-125: the batch cannot be run at all
GatherFails ==
  /\ pc = "start"
  /\ pc' = "except"
  /\ thrown' = "BatchError"
  /\ UNCHANGED <<dispatchVars, review_results, idx, aggregated, report, error>>
  /\ UNCHANGED serviceVars
  /\ UNCHANGED storeVars

\* lines 100-104: reviewer i's achat settles
AgentSettles(i) ==
  /\ pc = "gathering"
  /\ tstate[i] = "pending"
  /\ i \notin stalled
  /\ IF Escapes(outputs[i])
       THEN /\ pc' = "except"
            /\ thrown' = "AgentError"
            /\ UNCHANGED <<tstate, tresult, completed>>
       ELSE /\ tstate' = [tstate EXCEPT ![i] = "done"]
            /\ tresult' = [tresult EXCEPT ![i] = GetAgentReview(outputs[i])]
            /\ completed' = Append(completed, i)
            /\ UNCHANGED <<pc, thrown>>
  /\ UNCHANGED <<outputs, stalled, review_results, idx, aggregated, report, error>>
  /\ UNCHANGED serviceVars
  /\ UNCHANGED storeVars

\* lines 125-128: gather resolves and _aggregate_reviews is entered
GatherJoin ==
  /\ pc = "gathering"
  /\ AllSettled(tstate)
  /\ review_results' = GatherResults(tresult, completed)
  /\ pc' = "aggregate"
  /\ idx' = 1
  /\ aggregated' = EmptyAggregated
  /\ UNCHANGED <<dispatchVars, report, thrown, error>>
  /\ UNCHANGED serviceVars
  /\ UNCHANGED storeVars

\* lines 153-200: one iteration of the loop over review_results
AggregateStep ==
  /\ pc = "aggregate"
  /\ idx <= Len(review_results)
  /\ aggregated' = HandleResult(aggregated, review_results[idx])
  /\ idx' = idx + 1
  /\ UNCHANGED <<pc, dispatchVars, review_results, report, thrown, error>>
  /\ UNCHANGED serviceVars
  /\ UNCHANGED storeVars

\* lines 202-213: the dedup pass and the return
DedupStep ==
  /\ pc = "aggregate"
  /\ idx > Len(review_results)
  /\ IF DedupRaises(aggregated)
       THEN /\ pc' = "agg_raised"
            /\ thrown' = "TypeError"
            /\ UNCHANGED report
       ELSE /\ pc' = "agg_returned"
            /\ report' = DedupPass(aggregated)
            /\ UNCHANGED thrown
  /\ UNCHANGED <<dispatchVars, review_results, idx, aggregated, error>>
  /\ UNCHANGED serviceVars
  /\ UNCHANGED storeVars

\* line 130
ReturnReport ==
  /\ pc = "agg_returned"
  /\ pc' = "returned"
  /\ UNCHANGED <<dispatchVars, review_results, idx, aggregated, report, thrown, error>>
  /\ UNCHANGED serviceVars
  /\ UNCHANGED storeVars

\* lines 132-134
ExceptReraise ==
  /\ pc \in {"except", "agg_raised"}
  /\ pc' = "raised"
  /\ error' = Reraise(thrown)
  /\ UNCHANGED <<dispatchVars, review_results, idx, aggregated, report, thrown>>
  /\ UNCHANGED serviceVars
  /\ UNCHANGED storeVars

Next ==
  \/ StartGather
  \/ GatherFails
  \/ \E i \in Agents : AgentSettles(i)
  \/ GatherJoin
  \/ AggregateStep
  \/ DedupStep
  \/ ReturnReport
  \/ ExceptReraise

Spec == Init /\ [][Next]_vars

NextAgg == AggregateStep \/ DedupStep

SpecAgg == InitAgg /\ [][NextAgg]_vars

\* how many reviewers do anything but return the sample response
MaxDeviating == 1

\* what the roster's calls do when at most MaxDeviating of them deviate
LiveOutputs ==
  {o \in [Agents -> Outcomes] :
     Cardinality({i \in Agents : o[i] # [raises |-> FALSE, response |-> R_Sample]})
       <= MaxDeviating}

\* review_code is called, and some reviewers' calls never settle
InitLive ==
  /\ pc = "start"
  /\ outputs \in LiveOutputs
  /\ tstate = [i \in Agents |-> "new"]
  /\ tresult = [i \in Agents |-> NoneResult]
  /\ completed = <<>>
  /\ stalled \in SUBSET Agents
  /\ review_results = <<>>
  /\ idx = 1
  /\ aggregated = EmptyAggregated
  /\ report = EmptyAggregated
  /\ thrown = "none"
  /\ error = "none"
  /\ ServiceIdle
  /\ StoreEmpty

\* The event loop runs every task that can run: a reviewer's call that settles is
\* resumed, gather resolves once its children are done, and the code after an
\* await runs to its end.
Fairness ==
  /\ \A i \in Agents : WF_vars(AgentSettles(i))
  /\ WF_vars(StartGather \/ GatherFails)
  /\ WF_vars(GatherJoin)
  /\ WF_vars(AggregateStep)
  /\ WF_vars(DedupStep)
  /\ WF_vars(ReturnReport)
  /\ WF_vars(ExceptReraise)

SpecLive == InitLive /\ [][Next]_vars /\ Fairness

(***************************************************************************)
(* api.py: the /review endpoint                                            *)
(***************************************************************************)
Digits == {"0", "1", "2", "3", "4", "5", "6", "7", "8", "9"}

\* \w of the file_path pattern
WordChars ==
  {UpperChars[i] : i \in 1..Len(UpperChars)} \cup {LowerChars[i] : i \in 1..Len(LowerChars)}
    \cup Digits \cup {"_"}

\* line 23: ^[\w\-./]+$
MatchesPathPattern(t) ==
  t # <<>> /\ \A i \in 1..Len(t) : t[i] \in WordChars \cup {"-", ".", "/"}

\* str.endswith
EndsWith(t, suffix) ==
  Len(suffix) <= Len(t) /\ SubSeq(t, Len(t) - Len(suffix) + 1, Len(t)) = suffix

\* line 34
Extensions ==
  {<<".", "p", "y">>, <<".", "j", "s">>, <<".", "t", "s">>, <<".", "j", "a", "v", "a">>,
   <<".", "c", "p", "p">>, <<".", "g", "o">>}

\* lines 22, 26-30
ValidCode(code) == Len(code) >= 1 /\ Strip(code) # <<>>

\* lines 23, 32-36
ValidFilePath(path) ==
  /\ Len(path) >= 1
  /\ MatchesPathPattern(path)
  /\ \E ext \in Extensions : EndsWith(path, ext)

\* lines 21-36: CodeReviewRequest accepts the body
ValidRequest(r) == ValidCode(r.code) /\ ValidFilePath(r.file_path)

Codes == {<<>>, <<" ">>, <<"\n", "\t">>, <<"x">>, <<"x", "\n">>}

FilePaths ==
  {<<>>, <<"a", ".", "p", "y">>, <<"a", ".", "t", "x", "t">>, <<"a", " ", ".", "p", "y">>,
   <<"m", ".", "g", "o">>, <<"s", "/", "b", "-", "1", ".", "j", "s">>, <<".", "p", "y">>,
   <<"p", "y">>}

\* The exception classes review_code may raise; JSONDecodeError is a ValueError.
ExceptionClasses ==
  {"Exception", "TypeError", "RuntimeError", "ValueError", "JSONDecodeError"}

\* isinstance(e, ValueError)
IsValueError(class) == class \in {"ValueError", "JSONDecodeError"}

\* lines 70-96: the status the handler answers with
HandlerStatus(outcome) ==
  IF outcome = "none" THEN 200
  ELSE IF IsValueError(outcome) THEN 422
  ELSE 500

\* a request body arrives
InitApi ==
  /\ pc = "start"
  /\ outputs = [i \in Agents |-> [raises |-> FALSE, response |-> R_Sample]]
  /\ tstate = [i \in Agents |-> "new"]
  /\ tresult = [i \in Agents |-> NoneResult]
  /\ completed = <<>>
  /\ stalled = {}
  /\ review_results = <<>>
  /\ idx = 1
  /\ aggregated = EmptyAggregated
  /\ report = EmptyAggregated
  /\ thrown = "none"
  /\ error = "none"
  /\ api_pc = "received"
  /\ request \in [code : Codes, file_path : FilePaths]
  /\ core = "none"
  /\ status = 0
  /\ StoreEmpty

coreVars ==
  <<pc, outputs, tstate, tresult, completed, stalled, review_results, idx, aggregated,
    report, thrown, error>>

\* lines 21-36: the body fails validation; the handler is never entered
RejectRequest ==
  /\ api_pc = "received"
  /\ ~ValidRequest(request)
  /\ api_pc' = "responded"
  /\ status' = 422
  /\ UNCHANGED <<coreVars, request, core>>
  /\ UNCHANGED storeVars

\* lines 70-78: the handler awaits review_code
CallReview ==
  /\ api_pc = "received"
  /\ ValidRequest(request)
  /\ api_pc' = "reviewing"
  /\ UNCHANGED <<coreVars, request, core, status>>
  /\ UNCHANGED storeVars

\* line 75: review_code returns a report or raises
ReviewSettles ==
  /\ api_pc = "reviewing"
  /\ \E outcome \in {"none"} \cup ExceptionClasses : core' = outcome
  /\ api_pc' = "handling"
  /\ UNCHANGED <<coreVars, request, status>>
  /\ UNCHANGED storeVars

\* lines 83-96
Respond ==
  /\ api_pc = "handling"
  /\ status' = HandlerStatus(core)
  /\ api_pc' = "responded"
  /\ UNCHANGED <<coreVars, request, core>>
  /\ UNCHANGED storeVars

NextApi == RejectRequest \/ CallReview \/ ReviewSettles \/ Respond

SpecApi == InitApi /\ [][NextApi]_vars

(***************************************************************************)
(* database.py: store_review_result and update_insights                    *)
(*                                                                         *)
(* store_review_result awaits nothing that yields before it commits, so a  *)
(* call runs from its SessionLocal() to its commit as one step.  The text   *)
(* columns of code_reviews that update_insights never reads (file_path,    *)
(* code_content, suggestions, context) are left out of the rows.           *)
(***************************************************************************)
\* how many reports are stored
MaxStored == 3

\* An issue of a stored report, by the fields update_insights reads.
DbIssue(p, t, d) == [pattern |-> p, type |-> t, description |-> d]

\* issue.get(key, "")
GetText(field) == IF field.kind = "absent" THEN <<>> ELSE field.val

T_sql == <<"s","q","l">>
T_eval == <<"e","v","a","l">>
T_security == <<"s","e","c","u","r","i","t","y">>

I_Sql == DbIssue(StrVal(T_sql), StrVal(T_security), StrVal(T_x))
I_Eval == DbIssue(StrVal(T_eval), StrVal(T_security), Absent)

\* an issue as review_code reports it: a description, no pattern and no type
I_Plain == DbIssue(Absent, Absent, StrVal(T_y))

\* review_result, by the three buckets; a missing bucket reads as []
StoredReport(h, m, l) ==
  [high_priority |-> h, medium_priority |-> m, low_priority |-> l]

DbReports ==
  {StoredReport(<<>>, <<>>, <<>>),
   StoredReport(<<I_Sql>>, <<>>, <<>>),
   StoredReport(<<I_Sql, I_Sql>>, <<>>, <<>>),
   StoredReport(<<I_Sql, I_Plain>>, <<>>, <<>>),
   StoredReport(<<>>, <<I_Sql>>, <<>>),
   StoredReport(<<>>, <<>>, <<I_Eval>>),
   StoredReport(<<I_Plain>>, <<I_Eval>>, <<I_Sql>>)}

\* lines 75-83: the CodeReview row
CodeReviewRow(r) ==
  [high_priority_issues |-> r.high_priority,
   medium_priority_issues |-> r.medium_priority,
   low_priority_issues |-> r.low_priority]

\* lines 111-116: the ReviewInsight the else branch adds; frequency and last_seen
\* get their column defaults when the row is inserted
NewInsight(issue, now) ==
  [pattern |-> GetText(issue.pattern),
   issue_type |-> GetText(issue.type),
   severity |-> T_high,
   suggestion |-> GetText(issue.description),
   frequency |-> 1,
   last_seen |-> now]

\* lines 104-107: filter_by(pattern=..., issue_type=...) on the rows of the table.
\* The session does not autoflush (line 13), so objects added since the last
\* commit are not among them.
Matching(rows, issue) ==
  {n \in 1..Len(rows) : /\ rows[n].pattern = GetText(issue.pattern)
                        /\ rows[n].issue_type = GetText(issue.type)}

\* .first(): the row of lowest id
First(ns) == CHOOSE n \in ns : \A k \in ns : n <= k

\* lines 103-117: the loop over the high priority issues.  session.rows are the
\* table's rows as the session holds them, session.new the objects added.
RECURSIVE UpdateInsights(_, _, _)
UpdateInsights(session, issues, now) ==
  IF issues = <<>> THEN session
  ELSE LET found == Matching(session.rows, Head(issues))
       IN UpdateInsights(
            IF found # {}
              THEN [session EXCEPT !.rows[First(found)].frequency = @ + 1,
                                   !.rows[First(found)].last_seen = now]
              ELSE [session EXCEPT !.new = Append(@, NewInsight(Head(issues), now))],
            Tail(issues), now)

\* lines 55-90: store_review_result(file_path, code_content, r); the time of the
\* call is its ordinal
StoreReviewResult(r) ==
  /\ Len(reviews) < MaxStored
  /\ LET now == Len(reviews) + 1
         session == UpdateInsights([rows |-> insights, new |-> <<>>], r.high_priority, now)
     IN /\ reviews' = Append(reviews, CodeReviewRow(r))
        /\ insights' = session.rows \o session.new
  /\ UNCHANGED <<coreVars, serviceVars>>

InitDb ==
  /\ pc = "start"
  /\ outputs = [i \in Agents |-> [raises |-> FALSE, response |-> R_Sample]]
  /\ tstate = [i \in Agents |-> "new"]
  /\ tresult = [i \in Agents |-> NoneResult]
  /\ completed = <<>>
  /\ stalled = {}
  /\ review_results = <<>>
  /\ idx = 1
  /\ aggregated = EmptyAggregated
  /\ report = EmptyAggregated
  /\ thrown = "none"
  /\ error = "none"
  /\ ServiceIdle
  /\ StoreEmpty

NextDb == \E r \in DbReports : StoreReviewResult(r)

SpecDb == InitDb /\ [][NextDb]_vars

(***************************************************************************)
(* Properties                                                              *)
(***************************************************************************)
\* gather has resolved and handed its results to _aggregate_reviews
Joined ==
  \/ pc \in {"aggregate", "agg_returned", "agg_raised", "returned"}
  \/ pc = "raised" /\ thrown = "TypeError"

IsIn(x, xs) == \E k \in 1..Len(xs) : xs[k] = x

NoDuplicates(xs) == \A i \in 1..Len(xs) : \A j \in 1..Len(xs) : i < j => xs[i] # xs[j]

\* the elements of xs that no earlier element equals, in the order of xs
RECURSIVE FirstOccurrences(_)
FirstOccurrences(xs) ==
  IF xs = <<>> THEN <<>>
  ELSE LET n == Len(xs)
       IN IF \E k \in 1..(n - 1) : xs[k] = xs[n]
            THEN FirstOccurrences(SubSeq(xs, 1, n - 1))
            ELSE Append(FirstOccurrences(SubSeq(xs, 1, n - 1)), xs[n])

\* C1: _aggregate_reviews always returns a report; no exception reaches its caller,
\* neither from the processing of one result nor from the final dedup pass.
C1_AggregateNeverRaises == pc # "agg_raised"

\* C2: the sequence handed to aggregation has one result per roster entry, result i
\* being the one roster entry i produced, in every completion order; so the report
\* review_code returns is determined by the reviewers' outputs alone.
C2_ResultsInRosterOrder ==
  /\ Joined =>
       /\ Len(review_results) = NumAgents
       /\ \A i \in Agents : review_results[i] = tresult[i]
  /\ pc = "returned" =>
       report = AggregateReviews([i \in Agents |-> GetAgentReview(outputs[i])]).report

C2_Witness ==
  /\ pc = "returned"
  /\ completed = <<5, 4, 3, 2, 1>>
  /\ outputs[1].raises
  /\ ~outputs[5].raises
  /\ review_results[5] = R_Sample

\* the sentinel of line 104 and the sentinel the specification names
C3_WrappedSentinel ==
  Dict(ReviewDict(ListField(<<>>), ListField(<<>>)), NoField, NoField)

C3_PlainSentinel == Dict(NoReview, ListField(<<>>), ListField(<<>>))

\* C3 as stated: a reviewer whose call raises yields exactly {issues: [], suggestions: []}
\* and the batch still has one result per roster entry.
C3_PlainSentinelOnFailure ==
  /\ thrown # "AgentError"
  /\ \A i \in Agents :
       tstate[i] = "done" /\ outputs[i].raises => tresult[i] = C3_PlainSentinel
  /\ Joined =>
       /\ Len(review_results) = NumAgents
       /\ \A i \in Agents : outputs[i].raises => review_results[i] = C3_PlainSentinel

\* C3 as amended: a reviewer whose call raises an Exception never aborts the batch, and
\* its result is the empty sentinel wrapped under "review",
\* {review: {issues: [], suggestions: []}}; the batch still has one result per entry.
C3_WrappedSentinelOnFailure ==
  /\ thrown # "AgentError"
  /\ \A i \in Agents :
       tstate[i] = "done" /\ outputs[i].raises => tresult[i] = C3_WrappedSentinel
  /\ Joined =>
       /\ Len(review_results) = NumAgents
       /\ \A i \in Agents : outputs[i].raises => review_results[i] = C3_WrappedSentinel

C3_Witness ==
  /\ pc = "aggregate"
  /\ Cardinality({i \in Agents : outputs[i].raises}) = 1
  /\ outputs[3].raises
  /\ Len(review_results) = 5
  /\ review_results[3] = C3_WrappedSentinel

\* C4: aggregation begins, and review_code returns or raises, only when no reviewer
\* invocation is pending; once aggregation has begun every invocation has settled.
C4_JoinBarrier ==
  /\ Joined => \A i \in Agents : tstate[i] = "done"
  /\ pc \notin {"start", "gathering"} => \A i \in Agents : tstate[i] # "pending"

C4_Witness ==
  /\ pc = "aggregate"
  /\ idx = 1
  /\ completed = <<2, 1, 4, 3, 5>>
  /\ \A i \in Agents : tstate[i] = "done"

\* C5: review_code either returns the report built from the full-length result
\* sequence, or raises the failure unchanged; it returns no report from partial results.
C5_Atomic ==
  /\ pc = "returned" =>
       /\ Len(review_results) = NumAgents
       /\ \A i \in Agents : tstate[i] = "done" /\ review_results[i] = tresult[i]
       /\ report = AggregateReviews(review_results).report
       /\ error = "none"
  /\ pc = "raised" => error = thrown /\ error # "none"

C5_Witness ==
  /\ pc = "raised"
  /\ thrown = "BatchError"
  /\ error = "BatchError"
  /\ review_results = <<>>

\* the bucket C6 names for a mapping-shaped issue whose severity is absent or a text
C6_Bucket(x) ==
  IF x.severity.kind = "str" /\ Lower(x.severity.val) = T_high THEN "high_priority"
  ELSE IF x.severity.kind = "str" /\ Lower(x.severity.val) = T_medium
    THEN "medium_priority"
  ELSE "low_priority"

C6_TextSeverity(x) == x.isdict /\ x.severity.kind \in {"absent", "str"}

\* the issues list of a result whose mapping and issues field can be read
C6_Readable(result) ==
  LET r == Normalize(result)
  IN r.kind = "dict" /\ ~ReviewDataRaises(r) /\ ReviewData(r).issues.kind = "list"

C6_Items(result) == ReviewData(Normalize(result)).issues.items

\* C6: a mapping-shaped issue whose severity is absent or a text lands in the bucket
\* its own lower-cased severity names (high, medium, anything else or none: low) and
\* in no other, whichever result and position it came from.  It covers every issue
\* of the report and every issue the classification loop reaches.
C6_BucketBySeverity ==
  pc = "agg_returned" =>
    /\ \A b \in Buckets : \A k \in 1..Len(report[b]) :
         C6_TextSeverity(report[b][k]) => b = C6_Bucket(report[b][k])
    /\ \A i \in 1..Len(review_results) :
         C6_Readable(review_results[i]) =>
           LET items == C6_Items(review_results[i])
           IN \A j \in 1..Len(items) :
                (/\ items[j].isdict
                 /\ \A k \in 1..j : ~items[k].isdict \/ C6_TextSeverity(items[k]))
                => /\ IsIn(items[j], report[C6_Bucket(items[j])])
                   /\ \A b \in Buckets \ {C6_Bucket(items[j])} : ~IsIn(items[j], report[b])

C6_Witness ==
  /\ pc = "agg_returned"
  /\ review_results = <<R_Upper, R_Mixed, R_Sample>>
  /\ IsIn(Issue(StrVal(T_x), StrVal(<<"H","I","G","H">>), Absent), report.high_priority)
  /\ IsIn(Issue(StrVal(T_y), StrVal(<<"H","i","g","h">>), IntVal(<<"3">>)),
          report.high_priority)
  /\ IsIn(Issue(StrVal(T_y), StrVal(T_high), IntVal(<<"3">>)), report.high_priority)
  /\ IsIn(Issue(StrVal(T_x), StrVal(<<"M","E","D","I","U","M">>), Absent),
          report.medium_priority)
  /\ IsIn(Issue(StrVal(T_y), StrVal(<<"c","r","i","t","i","c","a","l">>), Absent),
          report.low_priority)
  /\ IsIn(Issue(StrVal(T_z), Absent, Absent), report.low_priority)

\* the suggestions one result adds: none when its processing raises
C7_Suggested(result) ==
  IF ProcessResult(EmptyAggregated, result).raised
    THEN <<>>
    ELSE ProcessResult(EmptyAggregated, result).acc.suggestions

RECURSIVE C7_AllSuggested(_)
C7_AllSuggested(rs) ==
  IF rs = <<>> THEN <<>> ELSE C7_Suggested(Head(rs)) \o C7_AllSuggested(Tail(rs))

C9_Case(result) ==
  /\ result.kind = "text"
  /\ ~JsonLoads(result.text).ok
  /\ Find(Lower(result.text), T_issues) >= 0
  /\ Find(Lower(result.text), T_suggestions)
       >= Find(Lower(result.text), T_issues) + Len(T_issues)

C9_Between(t) ==
  Slice(t, Find(Lower(t), T_issues) + Len(T_issues), Find(Lower(t), T_suggestions))

C9_After(t) == Slice(t, Find(Lower(t), T_suggestions) + Len(T_suggestions), Len(t))

\* C9: for such a text the issues are exactly the non-blank lines between the two
\* markers, each of severity medium, and the suggestions exactly the non-blank lines
\* after the "suggestions" marker.
C9_LinesBetweenMarkers ==
  (pc = "agg_returned" /\ Len(review_results) = 1 /\ C9_Case(review_results[1])) =>
    /\ report.medium_priority =
         MediumIssues(NonBlankLines(C9_Between(review_results[1].text)))
    /\ report.high_priority = <<>>
    /\ report.low_priority = <<>>
    /\ report.suggestions = NonBlankLines(C9_After(review_results[1].text))

\* a mapping with neither issues nor suggestions (nor review), as {"invalid": "data"}
C10_NoFields(result) ==
  /\ result.kind = "dict"
  /\ result.review.kind = "absent"
  /\ result.issues.kind = "absent"
  /\ result.suggestions.kind = "absent"

\* C10: aggregating no results gives four empty fields, and a mapping with neither
\* issues nor suggestions adds nothing and raises nothing: the outcome is the one
\* obtained without it.
C10_NothingFromNoFields ==
  pc \in {"agg_returned", "agg_raised"} =>
    LET without == SelectSeq(review_results, LAMBDA r : ~C10_NoFields(r))
        outcome == AggregateReviews(without)
    IN /\ (pc = "agg_raised") = outcome.raised
       /\ pc = "agg_returned" => report = outcome.report
       /\ without = <<>> => pc = "agg_returned" /\ report = EmptyAggregated

C10_Witness ==
  /\ pc = "agg_returned"
  /\ review_results = <<R_Sample, R_Invalid, R_Upper>>
  /\ report.suggestions = <<T_A, T_B, T_C>>
  /\ Len(report.low_priority) = 2

\* C11: for a request that passed validation, every exception review_code raises is
\* answered with status 500, never with a client-error status and never with success.
C11_CoreFailureIs500 ==
  (api_pc = "responded" /\ ValidRequest(request) /\ core # "none") => status = 500

\* every collected result is the sample response: one medium issue, one high issue
\* and two suggestions
C12_AllSample ==
  /\ review_results # <<>>
  /\ \A i \in 1..Len(review_results) : review_results[i] = R_Sample

RECURSIVE C13_FoldSkipping(_, _)
C13_FoldSkipping(acc, rs) ==
  IF rs = <<>> THEN acc
  ELSE LET p == ProcessResult(acc, Head(rs))
       IN C13_FoldSkipping(IF p.raised THEN acc ELSE p.acc, Tail(rs))

\* C13: a result whose processing raises is skipped entirely: after each iteration
\* the accumulator is the one built from the results that did not raise, with nothing
\* of a raising result in it (not even what precedes the offending entry), earlier
\* contributions unchanged and later results processed.
C13_FailedResultSkippedEntirely ==
  pc \in {"aggregate", "agg_returned", "agg_raised"} =>
    aggregated = C13_FoldSkipping(EmptyAggregated, SubSeq(review_results, 1, idx - 1))

\* C14: every mapping-shaped entry of a readable issues list, whatever its severity
\* holds (text, number, null or nothing), is in exactly one bucket of the report; one
\* whose severity is neither high nor medium is in low_priority, and no entry is
\* removed because of another entry's severity.
C14_EverySeverityBucketed ==
  pc = "agg_returned" =>
    \A i \in 1..Len(review_results) :
      C6_Readable(review_results[i]) =>
        LET items == C6_Items(review_results[i])
        IN \A j \in 1..Len(items) :
             items[j].isdict =>
               /\ IsIn(items[j], report[C6_Bucket(items[j])])
               /\ \A b \in Buckets \ {C6_Bucket(items[j])} : ~IsIn(items[j], report[b])

\* the mapping the unwrap step would read if a review field that is not a mapping
\* were passed over in favour of the top level
C15_Unwrapped(result) ==
  IF result.kind = "dict" /\ result.review.kind \notin {"absent", "dict"}
    THEN [result EXCEPT !.review = NoReview]
    ELSE result

\* C15: issues and suggestions are read from the nested review mapping when there is
\* one, and from the top-level mapping in every other case, a review field holding a
\* text or null included: the outcome is the one obtained with such a review field
\* taken away.
C15_NonMappingReviewReadsTopLevel ==
  pc \in {"agg_returned", "agg_raised"} =>
    LET unwrapped == [i \in 1..Len(review_results) |-> C15_Unwrapped(review_results[i])]
        outcome == AggregateReviews(unwrapped)
    IN /\ (pc = "agg_raised") = outcome.raised
       /\ pc = "agg_returned" => report = outcome.report

\* the issues of every bucket of every stored report
C16_Processed ==
  LET all(row) == row.high_priority_issues \o row.medium_priority_issues
                    \o row.low_priority_issues
      RECURSIVE flat(_)
      flat(rows) == IF rows = <<>> THEN <<>> ELSE all(Head(rows)) \o flat(Tail(rows))
  IN flat(reviews)

\* C16: for every key (pattern, issue_type) carried by an issue of any bucket of a
\* stored report there is exactly one counter record, and its frequency is the number
\* of issues with that key stored so far, two of them in one report included.
C16_OneCounterPerKey ==
  LET processed == C16_Processed
  IN \A i \in 1..Len(processed) :
       LET found == Matching(insights, processed[i])
           same == {k \in 1..Len(processed) :
                      /\ GetText(processed[k].pattern) = GetText(processed[i].pattern)
                      /\ GetText(processed[k].type) = GetText(processed[i].type)}
       IN /\ Cardinality(found) = 1
          /\ \A n \in found : insights[n].frequency = Cardinality(same)

\* C17: once the batch is running with every reviewer's call bound to settle,
\* review_code eventually returns a report; and while some reviewer's call never
\* settles the batch stalls: the results are never aggregated, review_code never
\* returns, and no report is made from the reviewers that did settle.
C17_ReturnsOrStalls ==
  /\ (pc = "gathering" /\ stalled = {}) ~> (pc = "returned")
  /\ [](stalled # {} =>
          /\ pc \notin {"aggregate", "agg_returned", "agg_raised", "returned"}
          /\ review_results = <<>>
          /\ report = EmptyAggregated)

====
